---- MODULE Spec2Model ----
(***************************************************************************)
(* The type inference pass of src/src/parser/infer.cc: a post-order AST    *)
(* visitor (struct Infer) that emits subtype constraints to a solver,      *)
(* checks the assignment discipline of locals and resolves call sites.     *)
(*                                                                         *)
(* The visitor's handlers, g, lhs, call_type, unpack_type,                 *)
(* make_constant_type and run are translated from infer.cc.  The Pass      *)
(* framework (traversal, parent stack, error()), the Subtype solver, the   *)
(* Lookup engine, dnf::throwtype, receiver_type and function_type are not  *)
(* part of infer.cc; they are modelled from the specification.             *)
(***************************************************************************)
EXTENDS Integers, Sequences, FiniteSets, TLC

\* Number of statements in the body of the analysed lambda.
MaxStmts == 2

\* The locals of the analysed lambda: x is a Let and v a Var, both without a
\* declared type; b is a Let declared as imm & Bool.
Locals == {"x", "v", "b"}

LocalKind(n) == IF n = "v" THEN "Var" ELSE "Let"

(***************************************************************************)
(* Types (the lattice of spec section 3.1), as records of one shape.       *)
(***************************************************************************)
TNone == [k |-> "none", n |-> "", ts |-> <<>>]

TImm == [k |-> "imm", n |-> "imm", ts |-> <<>>]

TTypeRef(name) == [k |-> "typeref", n |-> name, ts |-> <<>>]

TIsect(ts) == [k |-> "isect", n |-> "", ts |-> ts]

TInfer(name) == [k |-> "infer", n |-> name, ts |-> <<>>]

TTuple(ts) == [k |-> "tuple", n |-> "", ts |-> ts]

TFunction(l, r) == [k |-> "fn", n |-> "", ts |-> <<l, r>>]

TThrow(t) == [k |-> "throw", n |-> "", ts |-> <<t>>]

TLookupRef(name) == [k |-> "lookupref", n |-> name, ts |-> <<>>]

\* what call_type yields when the process dies in it (a failed assert, or
\* the read through a null type)
TAbort == [k |-> "abort", n |-> "", ts |-> <<>>]

TClassDef(name) == [k |-> "classdef", n |-> name, ts |-> <<>>]

\* imm & name, as a declared type in the AST
ImmT(name) == TIsect(<<TTypeRef(name), TImm>>)

\* The type a local starts with: its declared type, or a fresh inference
\* variable when it has none.
LocalType(n) == IF n = "b" THEN ImmT("Bool") ELSE TInfer(n)

(***************************************************************************)
(* Diagnostic texts                                                        *)
(***************************************************************************)
MsgFree == "Free variables can't be captured if they haven't been assigned to."

MsgReturn == "The return value is not a subtype of the result type."

MsgUse == "Variable used before assignment"

MsgAssign == "This local has already been assigned to"

MsgNotFound == "Couldn't find this function."

MsgNotFunction == "Expected a function but found "

MsgNoInteger == "No type Integer in scope."

MsgNoFloat == "No type Float in scope."

MsgNoBool == "No type Bool in scope."

MsgField == "The field initialiser is not a subtype of the field type."

MsgSubtype == "not a subtype"

(***************************************************************************)
(* The AST.  A node is a record; the tree is the sequence of its nodes in  *)
(* post-order, each node naming its parent and children by index.          *)
(* `name` is the text of the node's location (what g() looks up), `pos`    *)
(* the offset of that location in the source file.                         *)
(***************************************************************************)
Node(kind, parent, name, pos, left, right, seq, typenames, type) ==
    [kind |-> kind, parent |-> parent, name |-> name, pos |-> pos,
     left |-> left, right |-> right, seq |-> seq, typenames |-> typenames,
     type |-> type, dispatch |-> "none", subs |-> <<>>]

Leaf(kind, parent, name, pos) ==
    Node(kind, parent, name, pos, 0, 0, <<>>, <<>>, TNone)

\* A LookupRef node: subs is its substitution, one entry per type parameter
\* with the argument chosen for it, the parameter's upper bound, and whether
\* the weak reference to the parameter is still live.
LookupRefNode(parent, pos, subs) ==
    [Leaf("LookupRef", parent, "", pos) EXCEPT !.subs = subs]

Substitution(live, upper, arg) == [live |-> live, upper |-> upper, arg |-> arg]

\* The statement forms of the analysed programs.
Stmts ==
    {[form |-> "ref", l |-> l, a |-> a, tn |-> <<>>] :
        l \in {"x", "v"}, a \in {"x"}}
    \cup {[form |-> "ref", l |-> "x", a |-> "v", tn |-> <<>>]}
    \cup {[form |-> f, l |-> "x", a |-> "", tn |-> <<>>] : f \in {"Int", "Bool"}}
    \cup {[form |-> "Float", l |-> "v", a |-> "", tn |-> <<>>]}
    \cup {[form |-> "tuple", l |-> "v", a |-> "x", tn |-> <<>>]}
    \cup {[form |-> "select", l |-> "v", a |-> "x", tn |-> <<m>>] :
            m \in {"m", "f", "C"}}
    \cup {[form |-> "selectargs", l |-> "v", a |-> "x", tn |-> <<"C", "f">>]}
    \cup {[form |-> "selectnone", l |-> "v", a |-> "", tn |-> <<"f">>]}
    \cup {[form |-> "lambda", l |-> "x", a |-> "v", tn |-> <<>>]}
    \cup {[form |-> f, l |-> "", a |-> "x", tn |-> <<>>] :
            f \in {"oftype", "oftypebad"}}
    \cup {[form |-> "throw", l |-> "", a |-> "x", tn |-> <<>>]}
    \cup {[form |-> "ret", l |-> "", a |-> a, tn |-> <<>>] : a \in {"x", "b"}}

StmtLen(s) ==
    CASE s.form \in {"ref", "Int", "Float", "Bool", "selectnone"} -> 3
      [] s.form \in {"tuple", "selectargs"} -> 5
      [] s.form \in {"select", "lambda"} -> 4
      [] s.form \in {"oftype", "oftypebad"} -> 3
      [] s.form = "throw" -> 2
      [] OTHER -> 1

\* The nodes of statement s in post-order; o nodes precede it, its text
\* starts at offset b, and root is the index of the enclosing lambda.
StmtNodes(s, o, b, root) ==
    CASE s.form = "ref" ->
           << Leaf("Ref", o + 3, s.l, b),
              Leaf("Ref", o + 3, s.a, b + 2),
              Node("Assign", root, "", b, o + 1, o + 2, <<>>, <<>>, TNone) >>
      [] s.form \in {"Int", "Float", "Bool"} ->
           << Leaf("Ref", o + 3, s.l, b),
              Leaf(s.form, o + 3, "", b + 2),
              Node("Assign", root, "", b, o + 1, o + 2, <<>>, <<>>, TNone) >>
      [] s.form = "tuple" ->
           << Leaf("Ref", o + 5, s.l, b),
              Leaf("Ref", o + 4, s.a, b + 3),
              Leaf("Ref", o + 4, s.l, b + 4),
              Node("Tuple", o + 5, "", b + 2, 0, 0, <<o + 2, o + 3>>, <<>>, TNone),
              Node("Assign", root, "", b, o + 1, o + 4, <<>>, <<>>, TNone) >>
      [] s.form = "select" ->
           << Leaf("Ref", o + 4, s.l, b),
              Leaf("Ref", o + 3, s.a, b + 2),
              Node("Select", o + 4, "", b + 3, o + 2, 0, <<>>, s.tn, TNone),
              Node("Assign", root, "", b, o + 1, o + 3, <<>>, <<>>, TNone) >>
      [] s.form = "selectargs" ->
           << Leaf("Ref", o + 5, s.l, b),
              Leaf("Ref", o + 4, s.a, b + 2),
              Leaf("Ref", o + 4, s.l, b + 4),
              Node("Select", o + 5, "", b + 3, o + 2, o + 3, <<>>, s.tn, TNone),
              Node("Assign", root, "", b, o + 1, o + 4, <<>>, <<>>, TNone) >>
      [] s.form = "selectnone" ->
           << Leaf("Ref", o + 3, s.l, b),
              Node("Select", o + 3, "", b + 2, 0, 0, <<>>, s.tn, TNone),
              Node("Assign", root, "", b, o + 1, o + 2, <<>>, <<>>, TNone) >>
      [] s.form = "lambda" ->
           << Leaf("Ref", o + 4, s.l, b),
              Leaf("Free", o + 3, s.a, b + 3),
              Node("Lambda", o + 4, "", b + 2, 0, 0, <<>>, <<>>, ImmT("Integer")),
              Node("Assign", root, "", b, o + 1, o + 3, <<>>, <<>>, TNone) >>
      [] s.form = "oftype" ->
           << Leaf("Ref", o + 3, s.a, b),
              LookupRefNode(o + 3, b + 2,
                  << Substitution(TRUE, ImmT("Integer"), TInfer(s.a)),
                     Substitution(FALSE, ImmT("Bool"), ImmT("Integer")) >>),
              Node("Oftype", root, "", b, o + 1, 0, <<>>, <<>>, ImmT("Integer")) >>
      [] s.form = "oftypebad" ->
           << Leaf("Ref", o + 3, s.a, b),
              LookupRefNode(o + 3, b + 2,
                  << Substitution(TRUE, ImmT("Bool"), ImmT("Integer")) >>),
              Node("Oftype", root, "", b, o + 1, 0, <<>>, <<>>, ImmT("Integer")) >>
      [] s.form = "throw" ->
           << Leaf("Ref", o + 2, s.a, b + 2),
              Node("Throw", root, "", b, o + 1, 0, <<>>, <<>>, TNone) >>
      [] OTHER ->
           << Leaf("Ref", root, s.a, b) >>

RECURSIVE SumLen(_, _)
SumLen(p, i) == IF i = 0 THEN 0 ELSE SumLen(p, i - 1) + StmtLen(p[i])

RECURSIVE BodyNodes(_, _, _)
BodyNodes(p, i, root) ==
    IF i = 0 THEN <<>>
    ELSE BodyNodes(p, i - 1, root)
           \o StmtNodes(p[i], SumLen(p, i - 1), 10 * i, root)

\* The places a lambda can stand in: a field initialiser (with the field's
\* declared type), a default argument, or a function body.
Contexts ==
    { [kind |-> "Field", type |-> ImmT("Bool")],
      [kind |-> "Field", type |-> ImmT("Integer")],
      [kind |-> "Param", type |-> TNone],
      [kind |-> "Function", type |-> TNone] }

\* The AST of the lambda with body p standing in context c.
Ast(p, c) ==
    LET root == SumLen(p, Len(p)) + 1
    IN  BodyNodes(p, Len(p), root)
          \o << Node("Lambda", root + 1, "", 0, 0, 0, <<>>, <<>>, ImmT("Integer")),
                Node(c.kind, 0, "", 0, root, 0, <<>>, <<>>, c.type) >>


(***************************************************************************)
(* State                                                                   *)
(***************************************************************************)
VARIABLES
    nodes,    \* the AST lent to the pass
    scope,    \* the type and function names the symbol table defines
    locals,   \* per local: kind, assigned flag, type (stored on the AST)
    bounds,   \* Subtype::bounds: per inference variable, its lower/upper bounds
    cons,     \* the constraints the visitor submitted to the solver, in order
    diags,    \* the diagnostics written to the error stream, in order
    okV,      \* the visitor's status (Pass: false once error() was called)
    okS,      \* the solver's status
    pc,       \* index of the next node to visit
    phase,    \* "visit" while the traversal runs, "done" after run returned,
              \* "aborted" when the process died
    pass,     \* "first" or "second" invocation of run on this AST
    result,   \* the value run returned
    first     \* what the first invocation left: diags, cons, result

vars == <<nodes, scope, locals, bounds, cons, diags, okV, okS, pc, phase,
          pass, result, first>>

(***************************************************************************)
(* Lookup engine (spec section 4.2)                                        *)
(***************************************************************************)
ClassNames == {"Integer", "Float", "Bool", "C"}

FunctionNames == {"f"}

\* The scopes the analysed programs are compiled in.
Scopes ==
    { ClassNames \cup FunctionNames,
      (ClassNames \cup FunctionNames) \ {"Integer", "f"},
      (ClassNames \cup FunctionNames) \ {"Float", "Bool", "C"} }

\* the functions a class declares (static functions and methods)
ClassFunctions(c) ==
    CASE c = "Integer" -> {"m"}
      [] c = "C" -> {"f"}
      [] OTHER -> {}

\* the declared type of a function
Signature(name) == TFunction(ImmT("Integer"), ImmT("Integer"))

\* lookup.typeref(symbols(), typeref): the entity a path resolves to, or none
lookup_typeref(sc, names) ==
    IF Len(names) = 1
    THEN IF names[1] \notin sc THEN TNone
         ELSE IF names[1] \in FunctionNames THEN TLookupRef(names[1])
         ELSE TClassDef(names[1])
    ELSE IF names[1] \in sc /\ names[1] \in ClassNames
              /\ names[2] \in ClassFunctions(names[1])
         THEN TLookupRef(names[2])
         ELSE TNone

\* the class names a receiver type is known to be an instance of
RECURSIVE ClassesOf(_, _)
ClassesOf(b, t) ==
    CASE t.k = "typeref" -> {t.n}
      [] t.k = "isect" -> UNION {ClassesOf(b, t.ts[j]) : j \in 1..Len(t.ts)}
      [] t.k = "infer" ->
           UNION {IF u.k = "infer" THEN {} ELSE ClassesOf(b, u) : u \in b[t.n].upper}
      [] OTHER -> {}

\* lookup.member(receiver, name): the candidates, empty when there are none
lookup_member(b, receiver, name) ==
    IF \E c \in ClassesOf(b, receiver) : name \in ClassFunctions(c)
    THEN <<TLookupRef(name)>>
    ELSE <<>>

\* receiver_type: the self slot of an argument type
receiver_type(t) == IF t.k = "tuple" /\ Len(t.ts) > 0 THEN t.ts[1] ELSE t

(***************************************************************************)
(* DNF helper (spec section 4.3) and function_type                         *)
(***************************************************************************)
throwtype(t) == TThrow(t)

function_type(lambda) == TFunction(TNone, lambda.type)

(***************************************************************************)
(* Subtype solver (spec sections 3.3 and 4.4)                              *)
(***************************************************************************)
NoBounds == [v \in Locals |-> [lower |-> {}, upper |-> {}]]

\* structural subtyping of two types; an inference variable fits anything
RECURSIVE Sub0(_, _)
Sub0(A, B) ==
    CASE A.k = "infer" \/ B.k = "infer" -> TRUE
      [] B.k = "isect" -> \A j \in 1..Len(B.ts) : Sub0(A, B.ts[j])
      [] A.k = "isect" -> \E j \in 1..Len(A.ts) : Sub0(A.ts[j], B)
      [] A.k = "lookupref" /\ B.k = "fn" -> Sub0(Signature(A.n), B)
      [] A.k = "fn" /\ B.k = "fn" ->
           Sub0(B.ts[1], A.ts[1]) /\ Sub0(A.ts[2], B.ts[2])
      [] A.k = "tuple" /\ B.k = "tuple" ->
           Len(A.ts) = Len(B.ts) /\ \A j \in 1..Len(A.ts) : Sub0(A.ts[j], B.ts[j])
      [] A.k = "throw" /\ B.k = "throw" -> Sub0(A.ts[1], B.ts[1])
      [] A.k = "typeref" /\ B.k = "typeref" -> A.n = B.n
      [] A.k = "imm" /\ B.k = "imm" -> TRUE
      [] A.k = "none" /\ B.k = "none" -> TRUE
      [] OTHER -> FALSE

\* the interval of v is consistent: every lower bound fits every upper bound
Consistent(b, v) == \A lo \in b[v].lower : \A up \in b[v].upper : Sub0(lo, up)

\* A <: B under bounds b: [ok, b], the bounds narrowed when ok, unchanged
\* otherwise.
RECURSIVE Sub(_, _, _)
Sub(b, A, B) ==
    CASE A.k = "infer" /\ B.k = "infer" /\ A.n = B.n -> [ok |-> TRUE, b |-> b]
      [] A.k = "infer" \/ B.k = "infer" ->
           LET b1 == IF A.k = "infer"
                     THEN [b EXCEPT ![A.n].upper = @ \cup {B}] ELSE b
               b2 == IF B.k = "infer"
                     THEN [b1 EXCEPT ![B.n].lower = @ \cup {A}] ELSE b1
               good == /\ (A.k = "infer" => Consistent(b2, A.n))
                       /\ (B.k = "infer" => Consistent(b2, B.n))
           IN  [ok |-> good, b |-> IF good THEN b2 ELSE b]
      [] A.k = "lookupref" /\ B.k = "fn" -> Sub(b, Signature(A.n), B)
      [] A.k = "fn" /\ B.k = "fn" ->
           LET r1 == Sub(b, B.ts[1], A.ts[1])
               r2 == Sub(r1.b, A.ts[2], B.ts[2])
           IN  IF r1.ok /\ r2.ok THEN r2 ELSE [ok |-> FALSE, b |-> b]
      [] OTHER -> [ok |-> Sub0(A, B), b |-> b]

(***************************************************************************)
(* The pass state a handler works on: the locals of the AST, the solver,   *)
(* the error stream.  r is the value the last solver call returned,        *)
(* ndebug whether the build has its asserts compiled out, abort whether    *)
(* the process died in the handler.                                        *)
(***************************************************************************)
PassState(l, b, c, d, v, s) ==
    [locals |-> l, bounds |-> b, cons |-> c, diags |-> d, okV |-> v,
     okS |-> s, r |-> TRUE, ndebug |-> FALSE, abort |-> FALSE]

\* Pass::error(): the visitor records a diagnostic at location pos
Err(st, i, msg, pos) ==
    [st EXCEPT !.diags = Append(@, [src |-> "visitor", msg |-> msg,
                                    pos |-> pos, node |-> i]),
               !.okV = FALSE]

\* subtype(A, B): the constraint is submitted; a rejected one is reported
\* by the solver
Subtype(st, i, A, B) ==
    LET res == Sub(st.bounds, A, B)
        logged == [st EXCEPT !.cons = Append(@, [mode |-> "subtype", lhs |-> A,
                                                 rhs |-> B, ok |-> res.ok,
                                                 node |-> i]),
                             !.bounds = res.b,
                             !.r = res.ok]
    IN  IF res.ok THEN logged
        ELSE [logged EXCEPT !.diags = Append(@, [src |-> "solver",
                                                 msg |-> MsgSubtype,
                                                 pos |-> nodes[i].pos,
                                                 node |-> i]),
                            !.okS = FALSE]

\* subtype.dynamic(find, call): every candidate must fit the call; nothing
\* is reported when they do not
RECURSIVE DynSub(_, _, _, _)
DynSub(b, find, call, j) ==
    IF j > Len(find) THEN [ok |-> TRUE, b |-> b]
    ELSE LET r1 == Sub(b, find[j], call)
         IN  IF r1.ok THEN DynSub(r1.b, find, call, j + 1)
             ELSE [ok |-> FALSE, b |-> b]

Dynamic(st, i, find, call) ==
    LET res == IF Len(find) = 0 THEN [ok |-> FALSE, b |-> st.bounds]
               ELSE DynSub(st.bounds, find, call, 1)
    IN  [st EXCEPT !.cons = Append(@, [mode |-> "dynamic", lhs |-> TTuple(find),
                                       rhs |-> call, ok |-> res.ok, node |-> i]),
                   !.bounds = IF res.ok THEN res.b ELSE st.bounds,
                   !.r = res.ok]


(***************************************************************************)
(* Pass framework: the parent stack                                        *)
(***************************************************************************)
\* parent<T>(): the nearest enclosing node of the given kind (0 if none)
RECURSIVE Enclosing(_, _)
Enclosing(j, kind) ==
    IF j = 0 THEN 0
    ELSE IF nodes[j].kind = kind THEN j
    ELSE Enclosing(nodes[j].parent, kind)

ParentOfKind(i, kind) == Enclosing(nodes[i].parent, kind)

(***************************************************************************)
(* struct Infer: helpers                                                   *)
(***************************************************************************)
\* g(name): the local the name is bound to
g(st, name) == st.locals[name]

\* lhs(): the location of the left side of the enclosing Assign
lhs(i) == nodes[nodes[ParentOfKind(i, "Assign")].left].name

make_constant_type(name) ==
    IF lookup_typeref(scope, <<name>>) = TNone
    THEN TNone
    ELSE TIsect(<<TTypeRef(name), TImm>>)

\* unpack_type(to, from): the components of the tuple type `to` afterwards
unpack_type(to, from) ==
    IF from = TNone THEN to
    ELSE IF from.k = "tuple" THEN to \o from.ts
    ELSE Append(to, from)

\* call_type(left, right) for the Select node i; 0 is an absent child.
\* With both children present, assert(lt && rt) ends the process when a
\* type is null; with the asserts compiled out, the read of lt->location
\* through a null lt does.
call_type(st, i, left, right) ==
    LET lt == g(st, nodes[left].name).type
        rt == g(st, nodes[right].name).type
        dies == /\ left # 0 /\ right # 0
                /\ IF st.ndebug THEN lt = TNone ELSE lt = TNone \/ rt = TNone
        fleft ==
          IF left # 0 /\ right = 0 THEN lt
          ELSE IF left = 0 /\ right # 0 THEN rt
          ELSE IF left # 0 /\ right # 0
          THEN TTuple(unpack_type(unpack_type(<<>>, lt), rt))
          ELSE TNone
    IN  IF dies THEN TAbort ELSE TFunction(fleft, g(st, lhs(i)).type)

(***************************************************************************)
(* struct Infer: the post handlers.  Each maps the pass state before the   *)
(* handler of node i to the pass state after it.                           *)
(***************************************************************************)
\* post(Free&) that reports only while the pass has no error yet
post_Free_FirstErrorOnly(st, i) ==
    LET fr == nodes[i]
        l == g(st, fr.name)
    IN  IF ~l.assigned /\ st.okV THEN Err(st, i, MsgFree, fr.pos) ELSE st

\* post(Free&) that reports at the location of the definition (the top of
\* the body) instead of the location of the capture
post_Free_AtDefinition(st, i) ==
    LET fr == nodes[i]
        l == g(st, fr.name)
    IN  IF ~l.assigned THEN Err(st, i, MsgFree, 1) ELSE st

post_Free(st, i) ==
    LET fr == nodes[i]
        l == g(st, fr.name)
    IN  IF ~l.assigned THEN Err(st, i, MsgFree, fr.pos) ELSE st

\* post(Ref&) without the exemption of the left-hand side of an Assign
\* the loop of post(LookupRef&) from entry j of the substitution on
RECURSIVE CheckSubs(_, _, _)
CheckSubs(st, i, j) ==
    LET subs == nodes[i].subs
    IN  IF j > Len(subs) THEN st
        ELSE CheckSubs(IF subs[j].live
                       THEN Subtype(st, i, subs[j].arg, subs[j].upper)
                       ELSE st,
                       i, j + 1)

post_LookupRef(st, i) == CheckSubs(st, i, 1)

post_Ref_NoLeftExemption(st, i) ==
    LET ref == nodes[i]
        p == nodes[ref.parent]
        l == g(st, ref.name)
        used(s) == IF ~l.assigned THEN Err(s, i, MsgUse, ref.pos) ELSE s
    IN  IF p.kind = "Oftype" THEN st
        ELSE IF p.kind = "Assign"
        THEN IF p.left = i THEN used(st)
             ELSE used(Subtype(st, i, l.type, g(st, nodes[p.left].name).type))
        ELSE IF p.kind = "Lambda"
        THEN LET s1 == Subtype(st, i, l.type, p.type)
             IN  used(IF ~s1.r THEN Err(s1, i, MsgReturn, ref.pos) ELSE s1)
        ELSE used(st)

\* post(Ref&) that constrains against g(lhs()) under every parent inside an
\* Assign, not only as the child of the Assign
post_Ref_AnyParent(st, i) ==
    LET ref == nodes[i]
        p == nodes[ref.parent]
        l == g(st, ref.name)
        used(s) == IF ~l.assigned THEN Err(s, i, MsgUse, ref.pos) ELSE s
    IN  IF p.kind = "Oftype" THEN st
        ELSE IF p.kind = "Assign" /\ p.left = i THEN st
        ELSE IF p.kind = "Lambda"
        THEN LET s1 == Subtype(st, i, l.type, p.type)
             IN  used(IF ~s1.r THEN Err(s1, i, MsgReturn, ref.pos) ELSE s1)
        ELSE IF ParentOfKind(i, "Assign") # 0
        THEN used(Subtype(st, i, l.type, g(st, lhs(i)).type))
        ELSE used(st)

post_Ref(st, i) ==
    LET ref == nodes[i]
        p == nodes[ref.parent]
        l == g(st, ref.name)
        used(s) == IF ~l.assigned THEN Err(s, i, MsgUse, ref.pos) ELSE s
    IN  IF p.kind = "Oftype" THEN st
        ELSE IF p.kind = "Assign"
        THEN IF p.left = i THEN st
             ELSE used(Subtype(st, i, l.type, g(st, nodes[p.left].name).type))
        ELSE IF p.kind = "Lambda"
        THEN LET s1 == Subtype(st, i, l.type, p.type)
             IN  used(IF ~s1.r THEN Err(s1, i, MsgReturn, ref.pos) ELSE s1)
        ELSE used(st)

post_Oftype(st, i) ==
    LET oftype == nodes[i]
    IN  Subtype(st, i, g(st, nodes[oftype.left].name).type, oftype.type)

post_Throw(st, i) ==
    LET thr == nodes[i]
        t == throwtype(g(st, nodes[thr.left].name).type)
    IN  Subtype(st, i, t, nodes[ParentOfKind(i, "Lambda")].type)

\* post(Assign&) without the Var test
post_Assign_NoVar(st, i) ==
    LET asn == nodes[i]
        name == nodes[asn.left].name
        l == g(st, name)
    IN  IF ~l.assigned
        THEN [st EXCEPT !.locals[name].assigned = TRUE]
        ELSE Err(st, i, MsgAssign, nodes[asn.right].pos)

\* post(Assign&) that checks the flag but never sets it
post_Assign_NoMark(st, i) ==
    LET asn == nodes[i]
        name == nodes[asn.left].name
        l == g(st, name)
    IN  IF ~l.assigned \/ l.kind = "Var"
        THEN st
        ELSE Err(st, i, MsgAssign, nodes[asn.right].pos)

post_Assign(st, i) ==
    LET asn == nodes[i]
        name == nodes[asn.left].name
        l == g(st, name)
    IN  IF ~l.assigned \/ l.kind = "Var"
        THEN [st EXCEPT !.locals[name].assigned = TRUE]
        ELSE Err(st, i, MsgAssign, nodes[asn.right].pos)

post_Tuple(st, i) ==
    LET tuple == nodes[i]
        t == TTuple([e \in 1..Len(tuple.seq) |-> g(st, nodes[tuple.seq[e]].name).type])
    IN  [st EXCEPT !.locals[lhs(i)].type = t]

\* the static dispatch part of post(Select&)
StaticDispatch(st, i, call) ==
    LET sel == nodes[i]
        find == lookup_typeref(scope, sel.typenames)
    IN  IF find = TNone THEN Err(st, i, MsgNotFound, sel.pos)
        ELSE IF find.k # "lookupref" THEN Err(st, i, MsgNotFunction, sel.pos)
        ELSE Subtype(st, i, find, call)

\* post(Select&) without the return after a successful dynamic dispatch
post_Select_NoReturn(st, i) ==
    LET sel == nodes[i]
        call == call_type(st, i, sel.left, sel.right)
    IN  IF call = TAbort THEN [st EXCEPT !.abort = TRUE]
        ELSE IF call.ts[1] # TNone /\ Len(sel.typenames) = 1
        THEN LET receiver == receiver_type(call.ts[1])
                 find == lookup_member(st.bounds, receiver, sel.typenames[1])
                 s1 == Dynamic(st, i, find, call)
             IN  StaticDispatch(s1, i, call)
        ELSE StaticDispatch(st, i, call)

post_Select(st, i) ==
    LET sel == nodes[i]
        call == call_type(st, i, sel.left, sel.right)
    IN  IF call = TAbort THEN [st EXCEPT !.abort = TRUE]
        ELSE IF call.ts[1] # TNone /\ Len(sel.typenames) = 1
        THEN LET receiver == receiver_type(call.ts[1])
                 find == lookup_member(st.bounds, receiver, sel.typenames[1])
                 s1 == Dynamic(st, i, find, call)
             IN  IF s1.r THEN s1 ELSE StaticDispatch(s1, i, call)
        ELSE StaticDispatch(st, i, call)

post_Int(st, i) ==
    LET t == make_constant_type("Integer")
    IN  IF t = TNone THEN Err(st, i, MsgNoInteger, nodes[i].pos)
        ELSE Subtype(st, i, g(st, lhs(i)).type, t)

post_Float(st, i) ==
    LET t == make_constant_type("Float")
    IN  IF t = TNone THEN Err(st, i, MsgNoFloat, nodes[i].pos)
        ELSE Subtype(st, i, g(st, lhs(i)).type, t)

\* post(Bool&) with the constraint in the direction of post(Int&)
post_Bool_AsUpper(st, i) ==
    LET t == make_constant_type("Bool")
    IN  IF t = TNone THEN Err(st, i, MsgNoBool, nodes[i].pos)
        ELSE Subtype(st, i, g(st, lhs(i)).type, t)

post_Bool(st, i) ==
    LET t == make_constant_type("Bool")
    IN  IF t = TNone THEN Err(st, i, MsgNoBool, nodes[i].pos)
        ELSE Subtype(st, i, t, g(st, lhs(i)).type)

post_Lambda(st, i) ==
    LET lambda == nodes[i]
        p == nodes[lambda.parent]
    IN  CASE p.kind = "Assign" ->
               Subtype(st, i, function_type(lambda), g(st, lhs(i)).type)
          [] p.kind = "Param" -> st
          [] p.kind = "Field" ->
               LET s1 == Subtype(st, i, lambda.type, p.type)
               IN  IF ~s1.r THEN Err(s1, i, MsgField, lambda.pos) ELSE s1
          [] OTHER -> st

\* run returning the visitor's status alone
run_VisitorOnly(v, s) == v

\* bool run(Ast&, std::ostream&): the value returned
run(v, s) == v /\ s

(***************************************************************************)
(* The state machine                                                       *)
(***************************************************************************)
Now == PassState(locals, bounds, cons, diags, okV, okS)

Commit(st) ==
    /\ locals' = st.locals
    /\ bounds' = st.bounds
    /\ cons' = st.cons
    /\ diags' = st.diags
    /\ okV' = st.okV
    /\ okS' = st.okS
    /\ pc' = IF st.abort THEN pc ELSE pc + 1
    /\ phase' = IF st.abort THEN "aborted" ELSE phase
    /\ UNCHANGED <<nodes, scope, pass, result, first>>

At(kind) == phase = "visit" /\ pc <= Len(nodes) /\ nodes[pc].kind = kind

Init ==
    /\ \E p \in [1..MaxStmts -> Stmts], c \in Contexts : nodes = Ast(p, c)
    /\ scope \in Scopes
    /\ locals = [n \in Locals |-> [kind |-> LocalKind(n), assigned |-> FALSE,
                                   type |-> LocalType(n)]]
    /\ bounds = NoBounds
    /\ cons = <<>>
    /\ diags = <<>>
    /\ okV = TRUE
    /\ okS = TRUE
    /\ pc = 1
    /\ phase = "visit"
    /\ pass = "first"
    /\ result = TRUE
    /\ first = [diags |-> <<>>, cons |-> <<>>, result |-> TRUE]

VisitFree == At("Free") /\ Commit(post_Free(Now, pc))

VisitLookupRef == At("LookupRef") /\ Commit(post_LookupRef(Now, pc))

VisitRef == At("Ref") /\ Commit(post_Ref(Now, pc))

VisitOftype == At("Oftype") /\ Commit(post_Oftype(Now, pc))

VisitThrow == At("Throw") /\ Commit(post_Throw(Now, pc))

VisitAssign == At("Assign") /\ Commit(post_Assign(Now, pc))

VisitTuple == At("Tuple") /\ Commit(post_Tuple(Now, pc))

\* the build decides what a null type does to call_type
VisitSelect ==
    /\ At("Select")
    /\ \E nd \in BOOLEAN : Commit(post_Select([Now EXCEPT !.ndebug = nd], pc))

VisitInt == At("Int") /\ Commit(post_Int(Now, pc))

VisitFloat == At("Float") /\ Commit(post_Float(Now, pc))

VisitBool == At("Bool") /\ Commit(post_Bool(Now, pc))

VisitLambda == At("Lambda") /\ Commit(post_Lambda(Now, pc))

\* a node kind Infer has no handler for (Field, Param, Function)
VisitOther ==
    /\ phase = "visit" /\ pc <= Len(nodes)
    /\ nodes[pc].kind \in {"Field", "Param", "Function"}
    /\ Commit(Now)

\* the traversal is over: run returns
Return ==
    /\ phase = "visit" /\ pc > Len(nodes)
    /\ phase' = "done"
    /\ result' = run(okV, okS)
    /\ UNCHANGED <<nodes, scope, locals, bounds, cons, diags, okV, okS, pc,
                   pass, first>>

\* run is called again on the AST the first call left: a fresh visitor and
\* a fresh solver, the locals as they are
RunAgain ==
    /\ phase = "done" /\ pass = "first"
    /\ first' = [diags |-> diags, cons |-> cons, result |-> result]
    /\ pass' = "second"
    /\ phase' = "visit"
    /\ pc' = 1
    /\ bounds' = NoBounds
    /\ cons' = <<>>
    /\ diags' = <<>>
    /\ okV' = TRUE
    /\ okS' = TRUE
    /\ UNCHANGED <<nodes, scope, locals, result>>

Next ==
    \/ VisitFree
    \/ VisitLookupRef
    \/ VisitRef
    \/ VisitOftype
    \/ VisitThrow
    \/ VisitAssign
    \/ VisitTuple
    \/ VisitSelect
    \/ VisitInt
    \/ VisitFloat
    \/ VisitBool
    \/ VisitLambda
    \/ VisitOther
    \/ Return
    \/ RunAgain

Spec == Init /\ [][Next]_vars


(***************************************************************************)
(* Vocabulary of the properties                                            *)
(***************************************************************************)
\* what the step being taken appends to the error stream and to the solver
NewDiags == SubSeq(diags', Len(diags) + 1, Len(diags'))

NewCons == SubSeq(cons', Len(cons) + 1, Len(cons'))

VisitorDiags(d) == SelectSeq(d, LAMBDA e : e.src = "visitor")

Msgs(d) == [k \in 1..Len(d) |-> d[k].msg]

\* the handler of a node kind is about to run on node pc
Handling(kinds) == phase = "visit" /\ pc <= Len(nodes) /\ nodes[pc].kind \in kinds

\* node i is a Ref the use check exempts
Exempt(i) ==
    /\ nodes[i].kind = "Ref"
    /\ \/ nodes[nodes[i].parent].kind = "Oftype"
       \/ /\ nodes[nodes[i].parent].kind = "Assign"
          /\ nodes[nodes[i].parent].left = i

\* the diagnostics node i recorded in this run
DiagsOf(i) == SelectSeq(diags, LAMBDA e : e.node = i /\ e.src = "visitor")

ConsOf(i) == SelectSeq(cons, LAMBDA e : e.node = i)

\* t is the intersection of the nominal type `name` and imm
IsImmOf(t, name) ==
    /\ t.k = "isect"
    /\ {t.ts[j] : j \in 1..Len(t.ts)} = {TTypeRef(name), TImm}

\* node a is an Assign whose two sides are Refs to the same local
SelfAssign(a) ==
    /\ nodes[a].kind = "Assign"
    /\ nodes[nodes[a].left].kind = "Ref"
    /\ nodes[nodes[a].right].kind = "Ref"
    /\ nodes[nodes[a].left].name = nodes[nodes[a].right].name

RECURSIVE IsInside(_, _)
\* node i lies inside node a
IsInside(i, a) ==
    IF i = 0 THEN FALSE
    ELSE nodes[i].parent = a \/ IsInside(nodes[i].parent, a)

(***************************************************************************)
(* C1  Use before assignment.  The handler of a Ref that is neither under  *)
(* an Oftype nor the left child of its Assign, and the handler of a Free,  *)
(* record the use-before-assignment diagnostic exactly when the local's    *)
(* assigned flag is false at that moment; an exempt Ref records nothing.   *)
(* When the Assign handler of x = x finds x still unassigned, the right    *)
(* Ref has recorded the diagnostic and the left Ref has not.               *)
(***************************************************************************)
C1_Step ==
    Handling({"Ref", "Free"}) =>
        LET n == nodes[pc]
            reported == \E k \in 1..Len(NewDiags) :
                           /\ NewDiags[k].src = "visitor"
                           /\ NewDiags[k].node = pc
                           /\ NewDiags[k].pos = n.pos
                           /\ NewDiags[k].msg = IF n.kind = "Ref" THEN MsgUse ELSE MsgFree
        IN  IF Exempt(pc) THEN NewDiags = <<>>
            ELSE reported <=> ~locals[n.name].assigned

C1_SelfAssign ==
    \A a \in 1..Len(nodes) :
        (Handling({"Assign"}) /\ pc = a /\ SelfAssign(a)
            /\ ~locals[nodes[nodes[a].left].name].assigned)
        => /\ Msgs(DiagsOf(nodes[a].right)) = <<MsgUse>>
           /\ DiagsOf(nodes[a].left) = <<>>

C1_UseBeforeAssign == [][C1_Step]_vars /\ []C1_SelfAssign

C1_Witness ==
    /\ pass = "first" /\ pc = 4 /\ SelfAssign(3)
    /\ nodes[1].name = "x"
    /\ Msgs(DiagsOf(2)) = <<MsgUse>>
    /\ DiagsOf(1) = <<>>
    /\ locals["x"].assigned

(***************************************************************************)
(* C2  Single assignment.  The Assign handler records exactly one          *)
(* diagnostic (already assigned) and leaves the flag true when its left    *)
(* local is a Let that is already assigned; for a Var or an unassigned Let *)
(* it sets the flag and records nothing.  So within a run at most one      *)
(* Assign to a Let is accepted, and every Assign to a Var is.              *)
(***************************************************************************)
Accepted(a) == nodes[a].kind = "Assign" /\ a < pc /\ DiagsOf(a) = <<>>

TargetKind(a) == locals[nodes[nodes[a].left].name].kind

C2_Step ==
    Handling({"Assign"}) =>
        LET name == nodes[nodes[pc].left].name
            l == locals[name]
        IN  /\ locals'[name].assigned
            /\ IF l.kind = "Let" /\ l.assigned
               THEN /\ Len(NewDiags) = 1
                    /\ NewDiags[1].src = "visitor"
                    /\ NewDiags[1].msg = MsgAssign
               ELSE NewDiags = <<>>

C2_Once ==
    /\ \A a, b \in 1..Len(nodes) :
          (Accepted(a) /\ Accepted(b) /\ TargetKind(a) = "Let"
             /\ nodes[nodes[a].left].name = nodes[nodes[b].left].name) => a = b
    /\ \A a \in 1..Len(nodes) :
          (nodes[a].kind = "Assign" /\ a < pc /\ TargetKind(a) = "Var") => Accepted(a)

C2_SingleAssignment == [][C2_Step]_vars /\ []C2_Once

C2_Witness ==
    /\ pass = "first"
    /\ \E a, b \in 1..Len(nodes) :
          /\ a < b /\ b < pc
          /\ Accepted(a) /\ TargetKind(a) = "Let"
          /\ nodes[b].kind = "Assign"
          /\ nodes[nodes[b].left].name = nodes[nodes[a].left].name
          /\ Msgs(DiagsOf(b)) = <<MsgAssign>>
          /\ locals[nodes[nodes[b].left].name].assigned

(***************************************************************************)
(* C3  run returns true exactly when neither the visitor nor the solver    *)
(* recorded an error during the pass.                                      *)
(***************************************************************************)
C3_RunResult == phase = "done" => (result <=> diags = <<>>)

C3_Witness ==
    /\ phase = "done" /\ ~result
    /\ VisitorDiags(diags) = <<>>
    /\ diags # <<>>


(***************************************************************************)
(* C4  Idempotence as claimed: the second run on the AST the first run     *)
(* left emits the identical diagnostic sequence, and no constraint         *)
(* succeeds in the second run that did not succeed in the first.           *)
(***************************************************************************)
Succeeded(c) == {[lhs |-> c[k].lhs, rhs |-> c[k].rhs, node |-> c[k].node] :
                    k \in {j \in 1..Len(c) : c[j].ok}}

C4_Idempotent ==
    (pass = "second" /\ phase = "done") =>
        /\ diags = first.diags
        /\ Succeeded(cons) \subseteq Succeeded(first.cons)

(***************************************************************************)
(* C4 as amended.  The assigned flags and types persist on the AST, so in  *)
(* the second run every Assign whose left local is a Let records the       *)
(* already-assigned diagnostic, and no Ref or Free of a local that some    *)
(* Assign targets records use-before-assignment; a use of a local that no  *)
(* Assign targets is reported in both runs.  When the AST has no Tuple     *)
(* node (the types of the locals are unchanged), the second run submits    *)
(* the same constraints with the same outcomes and emits the same          *)
(* diagnostics apart from those of the assignment discipline.              *)
(***************************************************************************)
Targeted(name) ==
    \E a \in 1..Len(nodes) :
        nodes[a].kind = "Assign" /\ nodes[nodes[a].left].name = name

Discipline == {MsgUse, MsgFree, MsgAssign}

OtherDiags(d) == SelectSeq(d, LAMBDA e : e.msg \notin Discipline)

UseReported(d, i) ==
    \E k \in 1..Len(d) : d[k].node = i /\ d[k].msg \in {MsgUse, MsgFree}

C4_SecondRun ==
    (pass = "second" /\ phase = "done") =>
        /\ \A a \in 1..Len(nodes) :
              (nodes[a].kind = "Assign" /\ TargetKind(a) = "Let")
                 => Msgs(DiagsOf(a)) = <<MsgAssign>>
        /\ \A i \in 1..Len(nodes) :
              (nodes[i].kind \in {"Ref", "Free"} /\ ~Exempt(i)) =>
                 IF Targeted(nodes[i].name)
                 THEN ~UseReported(diags, i)
                 ELSE UseReported(diags, i) /\ UseReported(first.diags, i)
        /\ (\A i \in 1..Len(nodes) : nodes[i].kind # "Tuple") =>
              /\ cons = first.cons
              /\ OtherDiags(diags) = OtherDiags(first.diags)

C4_Witness ==
    /\ pass = "second" /\ phase = "done"
    /\ first.diags = <<>>
    /\ Msgs(diags) = <<MsgAssign>>
    /\ cons = first.cons /\ cons # <<>>

(***************************************************************************)
(* C5  Dispatch annotation: after run, every Select whose resolution       *)
(* succeeded carries its dispatch kind in the AST: dynamic when            *)
(* subtype.dynamic accepted the candidates, static when the constraint     *)
(* LookupRef <: call was emitted.                                          *)
(***************************************************************************)
ResolvedAs(i) ==
    IF \E k \in 1..Len(cons) :
          cons[k].node = i /\ cons[k].mode = "dynamic" /\ cons[k].ok
    THEN "dynamic"
    ELSE IF \E k \in 1..Len(cons) :
          cons[k].node = i /\ cons[k].mode = "subtype" /\ cons[k].lhs.k = "lookupref"
    THEN "static"
    ELSE "none"

C5_Annotated ==
    phase = "done" =>
        \A i \in 1..Len(nodes) :
            (nodes[i].kind = "Select" /\ ResolvedAs(i) # "none")
                => nodes[i].dispatch = ResolvedAs(i)

(***************************************************************************)
(* C6  Dispatch order at a Select.  Dynamic dispatch is attempted exactly  *)
(* when the typeref is a single name and the call has a left type.  When   *)
(* subtype.dynamic succeeds the handler stops: no other constraint, no     *)
(* diagnostic.  Otherwise static dispatch runs: an absent result records   *)
(* "Couldn't find this function", a result that is no LookupRef records    *)
(* "Expected a function", both without a constraint; a LookupRef emits     *)
(* exactly LookupRef <: call.                                              *)
(***************************************************************************)
C6_Step ==
    Handling({"Select"}) =>
        LET sel == nodes[pc]
            call == call_type(Now, pc, sel.left, sel.right)
            dyn == SelectSeq(NewCons, LAMBDA e : e.mode = "dynamic")
            sta == SelectSeq(NewCons, LAMBDA e : e.mode = "subtype")
            vis == VisitorDiags(NewDiags)
            find == lookup_typeref(scope, sel.typenames)
        IN  /\ Len(dyn) <= 1
            /\ Len(dyn) = 1 <=>
                  (Len(sel.typenames) = 1 /\ (sel.left # 0 \/ sel.right # 0))
            /\ Len(dyn) = 1 => (dyn[1] = NewCons[1] /\ dyn[1].rhs = call)
            /\ IF Len(dyn) = 1 /\ dyn[1].ok
               THEN Len(NewCons) = 1 /\ NewDiags = <<>>
               ELSE CASE find = TNone ->
                           sta = <<>> /\ Msgs(vis) = <<MsgNotFound>>
                      [] find # TNone /\ find.k # "lookupref" ->
                           sta = <<>> /\ Msgs(vis) = <<MsgNotFunction>>
                      [] OTHER ->
                           /\ Len(sta) = 1
                           /\ sta[1].lhs = find /\ sta[1].rhs = call
                           /\ vis = <<>>

C6_DispatchOrder == [][C6_Step]_vars

C6_Witness ==
    /\ pc > 1 /\ pc <= Len(nodes) + 1
    /\ nodes[pc - 1].kind = "Select"
    /\ Len(ConsOf(pc - 1)) = 1
    /\ ConsOf(pc - 1)[1].mode = "dynamic"
    /\ ConsOf(pc - 1)[1].ok
    /\ DiagsOf(pc - 1) = <<>>
    /\ lookup_typeref(scope, nodes[pc - 1].typenames) = TNone


(***************************************************************************)
(* C7  Error accumulation.  A diagnostic never stops the pass: whatever    *)
(* was recorded before, the handler of a node records one diagnostic for   *)
(* every fault the node has and the traversal moves on to the next node.   *)
(* The faults are: a capture or a use before assignment, a return value    *)
(* that is no subtype of the result type, reassignment of a Let, a literal *)
(* whose type is not in scope, a dispatch that fails (static lookup fails, *)
(* whether dynamic dispatch was not attempted or was attempted and         *)
(* failed), and a field initialiser that is no subtype of the field type.  *)
(* Diagnostics already recorded stay in the stream, and run returns only   *)
(* after the last node.                                                    *)
(***************************************************************************)
\* the messages the faults of node i call for, in the state before its
\* handler runs
FaultMsgs(i) ==
    LET n == nodes[i]
        p == nodes[n.parent]
    IN  CASE n.kind = "Free" ->
               IF ~locals[n.name].assigned THEN {MsgFree} ELSE {}
          [] n.kind = "Ref" ->
               IF Exempt(i) THEN {}
               ELSE (IF ~locals[n.name].assigned THEN {MsgUse} ELSE {})
                    \cup (IF /\ p.kind = "Lambda"
                             /\ ~Sub(bounds, locals[n.name].type, p.type).ok
                          THEN {MsgReturn} ELSE {})
          [] n.kind = "Assign" ->
               LET l == locals[nodes[n.left].name]
               IN  IF l.kind = "Let" /\ l.assigned THEN {MsgAssign} ELSE {}
          [] n.kind = "Int" ->
               IF "Integer" \notin scope THEN {MsgNoInteger} ELSE {}
          [] n.kind = "Float" ->
               IF "Float" \notin scope THEN {MsgNoFloat} ELSE {}
          [] n.kind = "Bool" ->
               IF "Bool" \notin scope THEN {MsgNoBool} ELSE {}
          [] n.kind = "Select" ->
               LET call == call_type(Now, i, n.left, n.right)
                   dispatched ==
                       /\ call # TAbort
                       /\ call.ts[1] # TNone /\ Len(n.typenames) = 1
                       /\ Dynamic(Now, i,
                                  lookup_member(bounds, receiver_type(call.ts[1]),
                                                n.typenames[1]),
                                  call).r
                   find == lookup_typeref(scope, n.typenames)
               IN  IF call = TAbort \/ dispatched \/ find.k = "lookupref" THEN {}
                   ELSE IF find = TNone THEN {MsgNotFound}
                   ELSE {MsgNotFunction}
          [] n.kind = "Lambda" ->
               IF p.kind = "Field" /\ ~Sub(bounds, n.type, p.type).ok
               THEN {MsgField} ELSE {}
          [] OTHER -> {}

C7_Step ==
    /\ (phase = "visit" /\ pc <= Len(nodes)) =>
          /\ pc' = pc + 1 /\ phase' = "visit"
          /\ SubSeq(diags', 1, Len(diags)) = diags
          /\ \A m \in FaultMsgs(pc) :
                \E k \in 1..Len(NewDiags) :
                    /\ NewDiags[k].src = "visitor"
                    /\ NewDiags[k].node = pc
                    /\ NewDiags[k].msg = m
    /\ phase' = "done" => (pc' = Len(nodes) + 1 /\ diags' = diags)

C7_Accumulate == [][C7_Step]_vars

\* a finished run in which a use before assignment, a dispatch that failed
\* after dynamic dispatch was attempted, a rejected return value and a
\* rejected field initialiser were all reported, one after the other
C7_Witness ==
    /\ phase = "done"
    /\ \E i, j, k, l \in 1..Len(nodes) :
          /\ i < j /\ j < k /\ k < l
          /\ nodes[i].kind = "Ref" /\ Msgs(DiagsOf(i)) = <<MsgUse>>
          /\ nodes[j].kind = "Select"
          /\ nodes[j].left # 0 /\ Len(nodes[j].typenames) = 1
          /\ \E e \in 1..Len(ConsOf(j)) :
                ConsOf(j)[e].mode = "dynamic" /\ ~ConsOf(j)[e].ok
          /\ Len(DiagsOf(j)) = 1
          /\ DiagsOf(j)[1].msg \in {MsgNotFound, MsgNotFunction}
          /\ nodes[k].kind = "Ref" /\ nodes[nodes[k].parent].kind = "Lambda"
          /\ MsgReturn \in {DiagsOf(k)[e].msg : e \in 1..Len(DiagsOf(k))}
          /\ nodes[l].kind = "Lambda" /\ Msgs(DiagsOf(l)) = <<MsgField>>

(***************************************************************************)
(* C8  Diagnostic order as claimed: of two diagnostics the visitor         *)
(* records, the one at the earlier source location is emitted first.       *)
(***************************************************************************)
C8_SourceOrder ==
    LET d == VisitorDiags(diags)
    IN  \A i, j \in 1..Len(d) : i < j => d[i].pos <= d[j].pos

(***************************************************************************)
(* C8 as amended.  Diagnostics are emitted in post-order of the nodes      *)
(* that record them: of two diagnostics the visitor records, the earlier   *)
(* one is at the same or an earlier source location unless the later one   *)
(* is recorded by a node (Lambda, Assign, Select) that encloses the node   *)
(* of the earlier one; such a diagnostic follows those recorded inside the *)
(* node although its location precedes theirs.                             *)
(***************************************************************************)
C8_PostOrder ==
    LET d == VisitorDiags(diags)
    IN  \A i, j \in 1..Len(d) :
            i < j => \/ d[i].pos <= d[j].pos
                     \/ IsInside(d[i].node, d[j].node)

C8_Witness ==
    LET d == VisitorDiags(diags)
    IN  \E i, j \in 1..Len(d) :
            /\ i < j
            /\ d[j].pos < d[i].pos
            /\ d[i].msg = MsgFree /\ d[j].msg = MsgAssign
            /\ IsInside(d[i].node, d[j].node)
            /\ \E k \in 1..Len(d) :
                  /\ j < k /\ d[k].msg = MsgField /\ d[k].pos < d[j].pos
                  /\ IsInside(d[j].node, d[k].node)

(***************************************************************************)
(* C9  Literal direction.  An Int (Float) literal emits exactly the        *)
(* constraint g(lhs).type <: imm & Integer (imm & Float); a Bool literal   *)
(* emits exactly imm & Bool <: g(lhs).type.  When the nominal type does    *)
(* not resolve in scope the handler records "No type ... in scope" and     *)
(* emits no constraint.                                                    *)
(***************************************************************************)
C9_Step ==
    Handling({"Int", "Float", "Bool"}) =>
        LET kind == nodes[pc].kind
            name == IF kind = "Int" THEN "Integer" ELSE kind
            msg == CASE kind = "Int" -> MsgNoInteger
                     [] kind = "Float" -> MsgNoFloat
                     [] OTHER -> MsgNoBool
            target == locals[lhs(pc)].type
        IN  IF name \notin scope
            THEN /\ NewCons = <<>>
                 /\ Msgs(NewDiags) = <<msg>>
                 /\ NewDiags[1].src = "visitor" /\ NewDiags[1].pos = nodes[pc].pos
            ELSE /\ Len(NewCons) = 1
                 /\ NewCons[1].mode = "subtype"
                 /\ VisitorDiags(NewDiags) = <<>>
                 /\ IF kind = "Bool"
                    THEN IsImmOf(NewCons[1].lhs, name) /\ NewCons[1].rhs = target
                    ELSE NewCons[1].lhs = target /\ IsImmOf(NewCons[1].rhs, name)

C9_LiteralDirection == [][C9_Step]_vars

C9_Witness ==
    /\ pc > 1 /\ pc <= Len(nodes) + 1
    /\ nodes[pc - 1].kind = "Bool"
    /\ Len(ConsOf(pc - 1)) = 1
    /\ IsImmOf(ConsOf(pc - 1)[1].lhs, "Bool")
    /\ ConsOf(pc - 1)[1].rhs = TInfer("x")
    /\ \E k \in 1..Len(cons) :
          /\ nodes[cons[k].node].kind = "Int"
          /\ cons[k].lhs = TInfer("x") /\ IsImmOf(cons[k].rhs, "Integer")

(***************************************************************************)
(* C10  Constraints of a Ref as claimed: none for a Ref under an Oftype or *)
(* on the left of its Assign; local.type <: lambda.result (with a          *)
(* diagnostic when rejected) for the return value of a Lambda; and         *)
(* local.type <: g(lhs).type for every other Ref, whatever its parent.     *)
(***************************************************************************)
RefCons(strict) ==
    Handling({"Ref"}) =>
        LET ref == nodes[pc]
            p == nodes[ref.parent]
            l == locals[ref.name]
            asn == ParentOfKind(pc, "Assign")
        IN  CASE Exempt(pc) -> NewCons = <<>>
              [] ~Exempt(pc) /\ p.kind = "Lambda" ->
                   /\ Len(NewCons) = 1
                   /\ NewCons[1].lhs = l.type /\ NewCons[1].rhs = p.type
                   /\ ~NewCons[1].ok <=>
                         \E k \in 1..Len(NewDiags) :
                             NewDiags[k].src = "visitor" /\ NewDiags[k].msg = MsgReturn
              [] ~Exempt(pc) /\ p.kind = "Assign" ->
                   /\ Len(NewCons) = 1
                   /\ NewCons[1].lhs = l.type
                   /\ NewCons[1].rhs = locals[nodes[p.left].name].type
              [] OTHER ->
                   IF strict
                   THEN /\ Len(NewCons) = 1
                        /\ NewCons[1].lhs = l.type
                        /\ asn # 0 => NewCons[1].rhs = locals[nodes[nodes[asn].left].name].type
                   ELSE NewCons = <<>>

C10_EveryOtherRef == [][RefCons(TRUE)]_vars

(***************************************************************************)
(* C10 as amended.  A Ref under an Oftype or on the left of its Assign     *)
(* emits no constraint; the return value of a Lambda emits                 *)
(* local.type <: lambda.result, with a diagnostic when rejected; a Ref     *)
(* that is the right child of an Assign emits local.type <: g(left).type;  *)
(* a Ref under any other parent (Tuple, Select, Throw) emits no            *)
(* constraint.                                                             *)
(***************************************************************************)
C10_RefConstraints == [][RefCons(FALSE)]_vars

C10_Witness ==
    /\ pc > 2 /\ pc <= Len(nodes) + 1
    /\ nodes[pc - 1].kind = "Ref"
    /\ nodes[nodes[pc - 1].parent].kind = "Tuple"
    /\ ParentOfKind(pc - 1, "Assign") # 0
    /\ ConsOf(pc - 1) = <<>>
    /\ Msgs(DiagsOf(pc - 1)) = <<MsgUse>>

====
